---- MODULE Spec2Model ----
(***************************************************************************)
(* State-machine model of love::graphics::opengl::ParticleSystem           *)
(* (ParticleSystem.cpp): the particle pool with its intrusive doubly       *)
(* linked active list and swap-with-last compaction, the emission          *)
(* scheduler of update(), and the start/stop/pause/reset state machine.    *)
(*                                                                         *)
(* Time is exact: one tick is 1/TicksPerSecond second, every dt, particle  *)
(* life and emitter life is a whole number of ticks, and the emission      *)
(* rates are the divisors of TicksPerSecond, so 1/emissionRate is a whole  *)
(* number of ticks as well.  Slots are offsets from pMem; nullptr is -1.   *)
(***************************************************************************)
EXTENDS Integers, Sequences, FiniteSets, TLC

\* ---------------------------------------------------------------- bounds
MaxSize == 2            \* largest buffer size passed to the constructor
MaxCounter == 2         \* cap of emitCounter, in ticks
MaxAge == 2             \* how far the emitter's life may run below -1
MaxElapsed == 8         \* length of a timed run, in ticks
MaxPoints == 3          \* most control points of a size or colour curve
Grain == 4              \* curve positions are the multiples of 1/Grain

MaxSpawned == MaxSize   \* particles spawned over one run of the pool
Steps == 0..2           \* the timesteps dt, in ticks
Rates == {0, 1, 2}      \* the emission rates, in particles per second
Modes == {"top", "bottom", "random"}

\* One second in ticks: the largest rate, which every other rate divides.
TicksPerSecond == CHOOSE n \in Rates : \A r \in Rates : r <= n /\ (r > 0 => n % r = 0)

nullptr == -1
Wild == -2              \* a link field of a slot that was never written
Infinity == -3          \* 1.0f / 0.0f

Min(a, b) == IF a < b THEN a ELSE b

VARIABLES
    pMem,               \* the particle array: slot -> Particle; <<>> is nullptr
    pFree,              \* the free boundary (offset from pMem)
    pHead, pTail,       \* ends of the active list
    active,
    insertMode,
    maxParticles,
    activeParticles,
    emissionRate,
    emitCounter,
    position, prevPosition,
    lifetime, life,     \* the emitter's configured and remaining life
    particleLifeMin, particleLifeMax,
    quads,              \* the sprite-region list: its length
    spawned,            \* history: number of particles ever initialised
    removed,            \* history: the removeParticle calls of the last operation
    attempts,           \* history: the addParticle calls of the last operation
    born,               \* history: the initParticle calls of the last operation
    fault,              \* "none", or how the process crashed
    thrown,             \* "none", or the exception the last call threw
    last,               \* history: the last operation and its argument
    step,               \* timed run: its fixed timestep
    elapsed,            \* timed run: the time its updates have covered
    capped,             \* timed run: some addParticle found the pool full
    twin,               \* a second system (a clone, a fresh emitter), or NoTwin
    curve               \* one particle's size and colour evaluation, or NoCurve

vars == <<pMem, pFree, pHead, pTail, active, insertMode, maxParticles,
          activeParticles, emissionRate, emitCounter, position, prevPosition,
          lifetime, life, particleLifeMin, particleLifeMax, quads,
          spawned, removed, attempts, born, fault, thrown, last, step,
          elapsed, capped, twin, curve>>

\* What the calls on this system alone leave as it is.
timed == <<step, elapsed, capped, twin, curve>>

\* No second system exists.
NoTwin == <<>>

\* No evaluation is looked at.
NoCurve == <<>>

\* The program's own fields (everything but the history variables).
fields == <<pMem, pFree, pHead, pTail, active, insertMode, maxParticles,
            activeParticles, emissionRate, emitCounter, position, prevPosition,
            lifetime, life, particleLifeMin, particleLifeMax, quads>>

\* The object as one record; rng is the stream of draws the operation will take.
\* pMemAt names the array pMem points to (0: none) and heap counts the arrays
\* the process has allocated: this system's array is the first, made by its
\* constructor.  newFails names the allocation of the call that will throw
\* std::bad_alloc ("never": none does); a call starts with no exception thrown.
Self(draws) ==
    [pMem |-> pMem, pFree |-> pFree, pHead |-> pHead, pTail |-> pTail,
     active |-> active, insertMode |-> insertMode, maxParticles |-> maxParticles,
     activeParticles |-> activeParticles, emissionRate |-> emissionRate,
     emitCounter |-> emitCounter, position |-> position,
     prevPosition |-> prevPosition, lifetime |-> lifetime, life |-> life,
     particleLifeMin |-> particleLifeMin, particleLifeMax |-> particleLifeMax,
     quads |-> quads,
     spawned |-> spawned, removed |-> <<>>, attempts |-> 0, born |-> <<>>,
     fault |-> fault,
     rng |-> draws, pMemAt |-> IF pMem = <<>> THEN 0 ELSE 1, heap |-> 1,
     thrown |-> "none", newFails |-> "never"]

Becomes(s) ==
    /\ pMem' = s.pMem /\ pFree' = s.pFree /\ pHead' = s.pHead /\ pTail' = s.pTail
    /\ active' = s.active /\ insertMode' = s.insertMode
    /\ maxParticles' = s.maxParticles /\ activeParticles' = s.activeParticles
    /\ emissionRate' = s.emissionRate /\ emitCounter' = s.emitCounter
    /\ position' = s.position /\ prevPosition' = s.prevPosition
    /\ lifetime' = s.lifetime /\ life' = s.life
    /\ particleLifeMin' = s.particleLifeMin /\ particleLifeMax' = s.particleLifeMax
    /\ quads' = s.quads
    /\ spawned' = s.spawned /\ removed' = s.removed /\ attempts' = s.attempts
    /\ born' = s.born
    /\ fault' = s.fault /\ thrown' = s.thrown

Is(s) ==
    /\ pMem = s.pMem /\ pFree = s.pFree /\ pHead = s.pHead /\ pTail = s.pTail
    /\ active = s.active /\ insertMode = s.insertMode
    /\ maxParticles = s.maxParticles /\ activeParticles = s.activeParticles
    /\ emissionRate = s.emissionRate /\ emitCounter = s.emitCounter
    /\ position = s.position /\ prevPosition = s.prevPosition
    /\ lifetime = s.lifetime /\ life = s.life
    /\ particleLifeMin = s.particleLifeMin /\ particleLifeMax = s.particleLifeMax
    /\ quads = s.quads
    /\ spawned = s.spawned /\ removed = s.removed /\ attempts = s.attempts
    /\ born = s.born
    /\ fault = s.fault /\ thrown = s.thrown

\* The object as the state holds it, for the queries and the calls that take
\* no draw.
This == Self(<<>>)

\* A slot of new Particle[size] before initParticle has written it.
Uninitialised ==
    [life |-> 0, lifetime |-> 0, quadIndex |-> 0, prev |-> Wild, next |-> Wild,
     id |-> 0]

\* ------------------------------------------------- memory and its faults
\* Writing or reading through a pointer that is not a slot of the array
\* (nullptr, a never-written link) is a crash: fault records it and the rest
\* of the operation is not executed.
Ok(s) == s.fault = "none"

Deref(s, q) == q \in DOMAIN s.pMem

Crash(s, q) == [s EXCEPT !.fault = IF q = nullptr THEN "null" ELSE "wild"]

\* q->f = v
Store(s, q, f, v) ==
    IF ~Ok(s) THEN s
    ELSE IF ~Deref(s, q) THEN Crash(s, q)
    ELSE [s EXCEPT !.pMem[q][f] = v]

\* member f = v
Assign(s, f, v) == IF Ok(s) THEN [s EXCEPT ![f] = v] ELSE s

\* ------------------------------------------------------------ the pool
isFull(s) == s.activeParticles = s.maxParticles

isEmpty(s) == s.activeParticles = 0

\* pos = prevPosition + (position - prevPosition) * t, with t the fraction
\* <<numerator, denominator>>: pos is a fraction over the same denominator,
\* and a zero denominator leaves pos undefined.
place(s, t) ==
    IF t[2] = 0 THEN <<0, 0>>
    ELSE <<s.prevPosition * t[2] + (s.position - s.prevPosition) * t[1], t[2]>>

\* The history entry of one initParticle call: the particle, t and pos.
initialised(s, t) ==
    IF Ok(s) THEN [s EXCEPT !.born = Append(@, [id |-> s.spawned + 1, t |-> t,
                                                pos |-> place(s, t)])]
    ELSE s

\* initParticle with lifetime left as the slot held it.
initParticle_keepsLifetime(s, p, t) ==
    LET l == IF s.particleLifeMin = s.particleLifeMax
             THEN s.particleLifeMin ELSE Head(s.rng).life
    IN Assign(Store(Store(Store(initialised(s, t), p, "life", l),
                          p, "quadIndex", 0),
                    p, "id", s.spawned + 1),
              "spawned", s.spawned + 1)

\* initParticle with lifetime taken from the lower bound instead of from life.
initParticle_m(s, p, t) ==
    LET l == IF s.particleLifeMin = s.particleLifeMax
             THEN s.particleLifeMin ELSE Head(s.rng).life
    IN Assign(Store(Store(Store(Store(initialised(s, t), p, "life", l),
                                p, "lifetime", s.particleLifeMin),
                          p, "quadIndex", 0),
                    p, "id", s.spawned + 1),
              "spawned", s.spawned + 1)

\* initParticle: pos from t; life is particleLifeMin when the bounds are equal
\* and a draw from [min, max] otherwise; lifetime = life; quadIndex = 0.  id
\* numbers the spawns.
initParticle(s, p, t) ==
    LET l == IF s.particleLifeMin = s.particleLifeMax
             THEN s.particleLifeMin ELSE Head(s.rng).life
    IN Assign(Store(Store(Store(Store(initialised(s, t), p, "life", l),
                                p, "lifetime", l),
                          p, "quadIndex", 0),
                    p, "id", s.spawned + 1),
              "spawned", s.spawned + 1)

insertTop(s, p) ==
    Assign(Store(IF s.pHead = nullptr
                 THEN Store(Assign(s, "pHead", p), p, "prev", nullptr)
                 ELSE Store(Store(s, s.pTail, "next", p), p, "prev", s.pTail),
                 p, "next", nullptr),
           "pTail", p)

insertBottom(s, p) ==
    Assign(Store(IF s.pTail = nullptr
                 THEN Store(Assign(s, "pTail", p), p, "next", nullptr)
                 ELSE Store(Store(s, s.pHead, "prev", p), p, "next", s.pHead),
                 p, "prev", nullptr),
           "pHead", p)

\* Special case where the particle gets inserted before the head.
insertBeforeHead(s, p, pA) ==
    Assign(Store(Store(IF pA # nullptr THEN Store(s, pA, "prev", p) ELSE s,
                       p, "prev", nullptr),
                 p, "next", pA),
           "pHead", p)

\* Inserts the particle after the randomly selected particle.
insertAfter(s, p, pA, pB) ==
    Store(Store(IF pB # nullptr
                THEN Store(Store(s, pA, "next", p), pB, "prev", p)
                ELSE Assign(Store(s, pA, "next", p), "pTail", p),
                p, "prev", pA),
          p, "next", pB)

\* pos = rng.rand() % (activeParticles + 1); activeParticles does not count p yet.
insertRandom(s, p) ==
    LET pos == Head(s.rng).rand % (s.activeParticles + 1)
    IN IF pos = s.activeParticles
       THEN insertBeforeHead(s, p, s.pHead)
       ELSE insertAfter(s, p, pos, s.pMem[pos].next)

\* switch (insertMode)
insert(s, p) ==
    CASE ~Ok(s)                  -> s
      [] s.insertMode = "bottom" -> insertBottom(s, p)
      [] s.insertMode = "random" -> insertRandom(s, p)
      [] OTHER                   -> insertTop(s, p)

activeParticlesUp(s) == Assign(s, "activeParticles", s.activeParticles + 1)

\* Particle *p = pFree++; initParticle(p, t); insert; activeParticles++.
\* The draw this spawn took leaves the stream.
spawn(s, t) ==
    [activeParticlesUp(insert(initParticle([s EXCEPT !.pFree = @ + 1], s.pFree, t),
                              s.pFree))
        EXCEPT !.rng = Tail(@)]

attempt(s) == [s EXCEPT !.attempts = @ + 1]

\* The particle is counted before the pool is found full.
addParticle_m(s, t) ==
    IF ~Ok(s) THEN s
    ELSE IF isFull(s) THEN activeParticlesUp(attempt(s))
    ELSE spawn(attempt(s), t)

addParticle(s, t) ==
    IF ~Ok(s) THEN s
    ELSE IF isFull(s) THEN attempt(s)
    ELSE spawn(attempt(s), t)

\* The id of the particle slot q holds, 0 when q is no slot below the free
\* boundary.
IdAt(s, q) == IF Deref(s, q) /\ q < s.pFree THEN s.pMem[q].id ELSE 0

\* Removes the particle from the linked list.
unlinkPrev(s, p) ==
    IF s.pMem[p].prev # nullptr
    THEN Store(s, s.pMem[p].prev, "next", s.pMem[p].next)
    ELSE Assign(s, "pHead", s.pMem[p].next)

unlinkNext(s, p) ==
    IF ~Ok(s) THEN s
    ELSE IF s.pMem[p].next # nullptr
    THEN Store(s, s.pMem[p].next, "prev", s.pMem[p].prev)
    ELSE Assign(s, "pTail", s.pMem[p].prev)

\* pFree--
release(s) == Assign(s, "pFree", s.pFree - 1)

\* if (p != pFree) *p = *pFree;
moveLast(s, p) ==
    IF ~Ok(s) \/ p = s.pFree THEN s
    ELSE IF ~Deref(s, s.pFree) THEN Crash(s, s.pFree)
    ELSE [s EXCEPT !.pMem[p] = s.pMem[s.pFree]]

\* The moved particle is made the head whatever precedes it.
relinkPrev_head(s, p) ==
    IF ~Ok(s) \/ p = s.pFree THEN s ELSE Assign(s, "pHead", p)

\* The moved particle's neighbours are pointed at its new slot.
relinkPrev(s, p) ==
    IF ~Ok(s) \/ p = s.pFree THEN s
    ELSE IF s.pMem[p].prev # nullptr THEN Store(s, s.pMem[p].prev, "next", p)
    ELSE Assign(s, "pHead", p)

relinkNext(s, p) ==
    IF ~Ok(s) \/ p = s.pFree THEN s
    ELSE IF s.pMem[p].next # nullptr THEN Store(s, s.pMem[p].next, "prev", p)
    ELSE Assign(s, "pTail", p)

activeParticlesDown(s) == Assign(s, "activeParticles", s.activeParticles - 1)

\* The object after the body of removeParticle, from u: the object once p is
\* unlinked.
compact(u, p) ==
    activeParticlesDown(relinkNext(relinkPrev(moveLast(release(u), p), p), p))

\* The return value without the correction for a moved successor.
returned_m(u, p) == u.pMem[p].next

\* pNext: p->next as the unlinking read it, or p when that particle is the
\* one moved into p's slot.
returned(u, p) ==
    IF p # u.pFree - 1 /\ u.pMem[p].next = u.pFree - 1 THEN p
    ELSE u.pMem[p].next

\* The history entry of one call: the removed id and its lifetime, the id that
\* followed it before the call, whether the follower was moved into p's slot, and the id
\* in the returned slot after the call.  s is the object before, h after.
removal(s, u, h, p) ==
    [id |-> s.pMem[p].id,
     lifetime |-> s.pMem[p].lifetime,
     succ |-> IdAt(s, s.pMem[p].next),
     moved |-> p # u.pFree - 1 /\ u.pMem[p].next = u.pFree - 1,
     null |-> returned(u, p) = nullptr,
     ret |-> IdAt(h, returned(u, p))]

\* A call that crashed has not returned and leaves no entry.
removing(s, u, h, p) ==
    IF ~Ok(h) THEN [pNext |-> nullptr, s |-> h]
    ELSE [pNext |-> returned(u, p),
          s |-> [h EXCEPT !.removed = Append(@, removal(s, u, h, p))]]

unlinked(s, u, p) == removing(s, u, compact(u, p), p)

\* Returns [s: the object afterwards, pNext: the returned pointer].
removeParticle(s, p) == unlinked(s, unlinkNext(unlinkPrev(s, p), p), p)

\* ------------------------------------------------------ buffer and reset
deleteBuffers(s) ==
    [s EXCEPT !.pMem = <<>>, !.pMemAt = 0, !.maxParticles = 0,
              !.activeParticles = 0]

\* throw love::Exception(what): the call ends there.
Throw(s, what) == [s EXCEPT !.thrown = what]

Returns(s) == s.thrown = "none"

\* pFree = pMem = new Particle[size]
newParticles(s, size) ==
    [s EXCEPT !.pMem = [i \in 0..(size - 1) |-> Uninitialised],
              !.pMemAt = s.heap + 1,
              !.heap = s.heap + 1,
              !.pFree = 0]

\* The try block: new Particle[size] throws and nothing is assigned, or
\* new love::Vertex[size * 4] throws after pFree = pMem was assigned, or
\* neither throws; the handler is deleteBuffers() and a throw.
createBuffers(s, size) ==
    CASE s.newFails = "Particle" ->
            Throw(deleteBuffers(s), "Out of memory")
      [] s.newFails = "Vertex" ->
            Throw(deleteBuffers(newParticles(s, size)), "Out of memory")
      [] OTHER ->
            [newParticles(s, size) EXCEPT !.maxParticles = size]

\* reset without unlinking the list.
reset_keepsList(s) ==
    IF s.pMem = <<>> THEN s
    ELSE [s EXCEPT !.pFree = 0, !.activeParticles = 0, !.life = s.lifetime,
                   !.emitCounter = 0]

\* reset that also stops the emitter.
reset_stops(s) ==
    IF s.pMem = <<>> THEN s
    ELSE [s EXCEPT !.pFree = 0, !.pHead = nullptr, !.pTail = nullptr,
                   !.activeParticles = 0, !.life = s.lifetime,
                   !.emitCounter = 0, !.active = FALSE]

reset(s) ==
    IF s.pMem = <<>> THEN s
    ELSE [s EXCEPT !.pFree = 0, !.pHead = nullptr, !.pTail = nullptr,
                   !.activeParticles = 0, !.life = s.lifetime,
                   !.emitCounter = 0]

\* The largest buffer size setBufferSize accepts.
MAX_PARTICLES == MaxSize + 1

\* reset(), unless createBuffers threw.
allocated(c) == IF Returns(c) THEN reset(c) ELSE c

\* The old buffer is released before the size is checked.
setBufferSize_late(s, size) ==
    IF size = 0 \/ size > MAX_PARTICLES
    THEN Throw(deleteBuffers(s), "Invalid buffer size")
    ELSE allocated(createBuffers(deleteBuffers(s), size))

\* The new buffer is taken without the reset.
setBufferSize_keeps(s, size) ==
    IF size = 0 \/ size > MAX_PARTICLES THEN Throw(s, "Invalid buffer size")
    ELSE [createBuffers(deleteBuffers(s), size) EXCEPT !.pHead = nullptr,
                                                       !.pTail = nullptr]

setBufferSize(s, size) ==
    IF size = 0 \/ size > MAX_PARTICLES THEN Throw(s, "Invalid buffer size")
    ELSE allocated(createBuffers(deleteBuffers(s), size))

\* The constructor with active(false).
ParticleSystem_m(size) ==
    setBufferSize(
        [pMem |-> <<>>, pFree |-> nullptr, pHead |-> nullptr, pTail |-> nullptr,
         active |-> FALSE, insertMode |-> "top", maxParticles |-> 0,
         activeParticles |-> 0, emissionRate |-> 0, emitCounter |-> 0,
         position |-> 0, prevPosition |-> 0, lifetime |-> -1, life |-> 0,
         particleLifeMin |-> 0, particleLifeMax |-> 0, quads |-> 0,
         spawned |-> 0, removed |-> <<>>, attempts |-> 0, born |-> <<>>,
         fault |-> "none",
         rng |-> <<>>, pMemAt |-> 0, heap |-> 0,
         thrown |-> "none", newFails |-> "never"],
        size)

\* ParticleSystem(texture, size): the member initialisers, then setBufferSize.
ParticleSystem(size) ==
    setBufferSize(
        [pMem |-> <<>>, pFree |-> nullptr, pHead |-> nullptr, pTail |-> nullptr,
         active |-> TRUE, insertMode |-> "top", maxParticles |-> 0,
         activeParticles |-> 0, emissionRate |-> 0, emitCounter |-> 0,
         position |-> 0, prevPosition |-> 0, lifetime |-> -1, life |-> 0,
         particleLifeMin |-> 0, particleLifeMax |-> 0, quads |-> 0,
         spawned |-> 0, removed |-> <<>>, attempts |-> 0, born |-> <<>>,
         fault |-> "none",
         rng |-> <<>>, pMemAt |-> 0, heap |-> 0,
         thrown |-> "none", newFails |-> "never"],
        size)

\* The members the copy constructor takes from p.
copied(p) ==
    [active |-> p.active, insertMode |-> p.insertMode,
     maxParticles |-> p.maxParticles, emissionRate |-> p.emissionRate,
     position |-> p.position, prevPosition |-> p.prevPosition,
     lifetime |-> p.lifetime,
     particleLifeMin |-> p.particleLifeMin, particleLifeMax |-> p.particleLifeMax,
     quads |-> p.quads]

\* A copy that takes the remaining life and the accumulator from p as well.
clone_snapshot(p) ==
    [setBufferSize(
        [pMem |-> <<>>, pFree |-> nullptr, pHead |-> nullptr, pTail |-> nullptr,
         active |-> p.active, insertMode |-> p.insertMode,
         maxParticles |-> p.maxParticles, activeParticles |-> 0,
         emissionRate |-> p.emissionRate, emitCounter |-> 0,
         position |-> p.position, prevPosition |-> p.prevPosition,
         lifetime |-> p.lifetime, life |-> p.lifetime,
         particleLifeMin |-> p.particleLifeMin,
         particleLifeMax |-> p.particleLifeMax, quads |-> p.quads,
         spawned |-> 0, removed |-> <<>>, attempts |-> 0, born |-> <<>>,
         fault |-> "none",
         rng |-> <<>>, pMemAt |-> 0, heap |-> p.heap,
         thrown |-> "none", newFails |-> "never"],
        p.maxParticles)
     EXCEPT !.life = p.life, !.emitCounter = p.emitCounter]

\* The memberwise copy: the copy's pMem, pFree, pHead and pTail point into
\* p's array.
clone_shallow(p) ==
    [p EXCEPT !.removed = <<>>, !.attempts = 0, !.born = <<>>, !.rng = <<>>]

\* clone(): new ParticleSystem(*this), the copy constructor's member
\* initialisers and its setBufferSize(maxParticles).
clone(p) ==
    setBufferSize(
        [pMem |-> <<>>, pFree |-> nullptr, pHead |-> nullptr, pTail |-> nullptr,
         active |-> p.active, insertMode |-> p.insertMode,
         maxParticles |-> p.maxParticles, activeParticles |-> 0,
         emissionRate |-> p.emissionRate, emitCounter |-> 0,
         position |-> p.position, prevPosition |-> p.prevPosition,
         lifetime |-> p.lifetime, life |-> p.lifetime,
         particleLifeMin |-> p.particleLifeMin,
         particleLifeMax |-> p.particleLifeMax, quads |-> p.quads,
         spawned |-> 0, removed |-> <<>>, attempts |-> 0, born |-> <<>>,
         fault |-> "none",
         rng |-> <<>>, pMemAt |-> 0, heap |-> p.heap,
         thrown |-> "none", newFails |-> "never"],
        p.maxParticles)

\* -------------------------------------------------------- state machine
\* start also clears the accumulator, as stop does.
start_m(s) == [s EXCEPT !.active = TRUE, !.emitCounter = 0]

start(s) == [s EXCEPT !.active = TRUE]

\* stop without life = lifetime.
stop_m(s) == [s EXCEPT !.active = FALSE, !.emitCounter = 0]

stop(s) == [s EXCEPT !.active = FALSE, !.life = s.lifetime, !.emitCounter = 0]

\* pause restores the emitter's life, as stop does.
pause_m(s) == [s EXCEPT !.active = FALSE, !.life = s.lifetime]

pause(s) == [s EXCEPT !.active = FALSE]

isActive(s) == s.active

isPaused(s) == ~s.active /\ s.life < s.lifetime

\* The test with > in place of >=.
isStopped_m(s) == ~s.active /\ s.life > s.lifetime

isStopped(s) == ~s.active /\ s.life >= s.lifetime

\* ------------------------------------------------------- emit and update
RECURSIVE emitTimes(_, _)
emitTimes(s, num) ==
    IF num = 0 \/ ~Ok(s) THEN s ELSE emitTimes(addParticle(s, <<1, 1>>), num - 1)

emit(s, num) ==
    IF ~s.active THEN s
    ELSE emitTimes(s, Min(num, s.maxParticles - s.activeParticles))

\* The while (p) loop of update: age p, remove it when expired, else step on.
RECURSIVE traverse(_, _, _)
resume(r, dt) == traverse(r.s, r.pNext, dt)

\* t = 1.0f - p->life / p->lifetime, as the fraction <<numerator, denominator>>
\* with a positive denominator.
ratio(life_, lifetime_) ==
    IF lifetime_ > 0 THEN <<lifetime_ - life_, lifetime_>>
    ELSE <<life_ - lifetime_, 0 - lifetime_>>

\* The index with s = t * (k - 1).
quadIndexAt_m(t, k) ==
    IF t[1] * (k - 1) <= 0 THEN 0
    ELSE IF (t[1] * (k - 1)) \div t[2] < k THEN (t[1] * (k - 1)) \div t[2]
    ELSE k - 1

\* s = t * k; i = (s > 0.0f) ? (size_t) s : 0; (i < k) ? i : k - 1
quadIndexAt(t, k) ==
    IF t[1] * k <= 0 THEN 0
    ELSE IF (t[1] * k) \div t[2] < k THEN (t[1] * k) \div t[2]
    ELSE k - 1

\* The else branch of the loop for the particle p, which stays: t is computed
\* from its life and lifetime, and when the region list is not empty its
\* quadIndex is set.  With lifetime 0 the division gives no finite t and the
\* conversions to size_t that follow are undefined: fault records it.
evaluate(s, p) ==
    IF s.pMem[p].lifetime = 0 THEN [s EXCEPT !.fault = "undefined"]
    ELSE IF s.quads > 0
    THEN [s EXCEPT !.pMem[p].quadIndex =
                      quadIndexAt(ratio(s.pMem[p].life, s.pMem[p].lifetime), s.quads)]
    ELSE s

aged(s, p, dt) ==
    IF s.pMem[p].life <= 0 THEN resume(removeParticle(s, p), dt)
    ELSE traverse(evaluate(s, p), s.pMem[p].next, dt)

traverse(s, p, dt) ==
    IF p = nullptr \/ ~Ok(s) THEN s
    ELSE IF ~Deref(s, p) THEN Crash(s, p)
    ELSE aged([s EXCEPT !.pMem[p].life = @ - dt], p, dt)

\* A zero rate is taken as one particle per second.
rate_m(s) ==
    IF s.emissionRate = 0 THEN TicksPerSecond
    ELSE TicksPerSecond \div s.emissionRate

\* rate = 1.0f / emissionRate, in ticks.
rate(s) ==
    IF s.emissionRate = 0 THEN Infinity ELSE TicksPerSecond \div s.emissionRate

\* The loop test with >= in place of >.
exceeds_m(c, rt) == rt # Infinity /\ c >= rt

\* emitCounter > rate
exceeds(c, rt) == rt # Infinity /\ c > rt

\* The accumulator is cleared instead of keeping its remainder.
spend_m(s, rt) == Assign(s, "emitCounter", 0)

\* emitCounter -= rate
spend(s, rt) == Assign(s, "emitCounter", s.emitCounter - rt)

\* while (emitCounter > rate) { addParticle(1 - (emitCounter - rate) / total); ... }
\* t is kept as the fraction <<numerator, denominator>>.
RECURSIVE emitLoop(_, _, _)
emitLoop(s, rt, total) ==
    IF Ok(s) /\ exceeds(s.emitCounter, rt)
    THEN emitLoop(spend(addParticle(s, <<total - (s.emitCounter - rt), total>>), rt),
                  rt, total)
    ELSE s

\* total = emitCounter, then the loop.
emitDue_m(s) == emitLoop(s, rate(s), s.emitCounter)

\* total = emitCounter - rate, then the loop.
emitDue(s) == emitLoop(s, rate(s), s.emitCounter - rate(s))

\* emitCounter += dt
accumulate(s, dt) == Assign(s, "emitCounter", s.emitCounter + dt)

\* life -= dt
countLife(s, dt) == Assign(s, "life", s.life - dt)

\* if (life < 0) stop();
expire_m(s) == IF Ok(s) /\ s.life < 0 THEN stop(s) ELSE s

\* if (lifetime != -1 && life < 0) stop();
expire(s) == IF Ok(s) /\ s.lifetime # -1 /\ s.life < 0 THEN stop(s) ELSE s

\* if (active) { ... }
makeMore(s, dt) ==
    IF Ok(s) /\ s.active
    THEN expire(countLife(emitDue(accumulate(s, dt)), dt))
    ELSE s

\* The body of update without its last statement.
remember_m(s) == s

\* prevPosition = position
remember(s) == Assign(s, "prevPosition", s.position)

\* The traversal from the head of the list as s holds it.
fromHead(s, dt) == traverse(s, s.pHead, dt)

\* The body of update with the emission ahead of the traversal.
tick_emitsFirst(s, dt) == remember(fromHead(makeMore(s, dt), dt))

\* The body of update past its early return.
tick(s, dt) == remember(makeMore(traverse(s, s.pHead, dt), dt))

\* update without the dt == 0 half of its early return.
update_m(s, dt) == IF s.pMem = <<>> THEN s ELSE tick(s, dt)

update(s, dt) == IF s.pMem = <<>> \/ dt = 0 THEN s ELSE tick(s, dt)

\* setQuads(newQuads) with a list of k regions; setQuads() clears it (k = 0).
setQuads(s, k) == [s EXCEPT !.quads = k]

\* The slots while (p) of draw visits from p, at most n of them.
RECURSIVE visited(_, _, _)
visited(m, p, n) ==
    IF p \notin DOMAIN m \/ n = 0 THEN {}
    ELSE {p} \cup visited(m, m[p].next, n - 1)

\* The particles draw visits whose quadIndex is no index of the region list.
outside(s) ==
    {q \in visited(s.pMem, s.pHead, s.maxParticles) :
        s.pMem[q].quadIndex >= s.quads}

\* draw: nothing when the pool is empty or there is no buffer; else, when the
\* region list is not empty, quads[p->quadIndex] for every particle of the
\* list.  A read past the end of the vector is undefined: the call goes on
\* with what it read (outcome "none") or the process crashes ("wild").
draw(s, outcome) ==
    IF s.activeParticles = 0 \/ s.pMem = <<>> \/ s.quads = 0 \/ outside(s) = {}
    THEN s
    ELSE [s EXCEPT !.fault = outcome]

setPosition(s, x) == [s EXCEPT !.position = x, !.prevPosition = x]

moveTo(s, x) == [s EXCEPT !.position = x]

\* ----------------------------------------------------------- the setters
setInsertMode(s, mode) == [s EXCEPT !.insertMode = mode]

\* The rate is assigned before it is checked.
setEmissionRate_m(s, r) ==
    IF r < 0 THEN Throw([s EXCEPT !.emissionRate = r], "Invalid emission rate")
    ELSE [s EXCEPT !.emissionRate = r]

\* A negative rate throws and assigns nothing.
setEmissionRate(s, r) ==
    IF r < 0 THEN Throw(s, "Invalid emission rate")
    ELSE [s EXCEPT !.emissionRate = r]

setEmitterLifetime(s, l) == [s EXCEPT !.life = l, !.lifetime = l]

setParticleLifetime(s, min, max) ==
    [s EXCEPT !.particleLifeMin = min,
              !.particleLifeMax = IF max = 0 THEN min ELSE max]

\* ------------------------------------------------------------- the draws
\* One draw per spawn: the particle's life (used when the bounds differ) and
\* rng.rand() (used in random insert mode).
DrawSet ==
    [life : IF particleLifeMin = particleLifeMax THEN {0}
            ELSE particleLifeMin..particleLifeMax,
     rand : IF insertMode = "random" THEN 0..(maxParticles - 1) ELSE {0}]

Streams(k) == [1..k -> DrawSet]

\* How often while (emitCounter > rate) runs from emitCounter = c.
RECURSIVE Due(_, _)
Due(c, rt) == IF exceeds(c, rt) THEN 1 + Due(c - rt, rt) ELSE 0

\* The number of draws emit(num) and update(dt) can take.
DrawsOfEmit(num) ==
    IF active THEN Min(num, maxParticles - activeParticles) ELSE 0

\* s1 is the object after the traversal of update.
DueAfter(s1, dt) ==
    IF ~s1.active \/ ~Ok(s1) THEN 0
    ELSE Min(Due(s1.emitCounter + dt, rate(s1)),
             s1.maxParticles - s1.activeParticles)

DrawsOfUpdate(dt) ==
    IF pMem = <<>> \/ dt = 0 THEN 0
    ELSE DueAfter(traverse(Self(<<>>), pHead, dt), dt)

\* The caps that keep the counters of a run finite; a crashed process runs
\* no further and needs none.
Within(s) ==
    \/ ~Ok(s)
    \/ /\ s.spawned <= MaxSpawned
       /\ s.emitCounter <= MaxCounter
       /\ s.life >= -1 - MaxAge

\* The process has not crashed.
Alive == fault = "none"

\* ---------------------------------------------------------------- actions
\* The configurations a run starts from: the constructor's own (rate 0,
\* particle life 0, infinite emitter life), or one set before the first tick.
\* <<particle life, emission rate, emitter lifetime>>
Starts == {<<0, 0, -1>>, <<3, TicksPerSecond, -1>>}

Init ==
    \E size \in 1..MaxSize, c \in Starts :
        /\ Is(setEmitterLifetime(
                setEmissionRate(
                  setParticleLifetime(ParticleSystem(size), c[1], c[1]), c[2]), c[3]))
        /\ last = [op |-> IF c[2] = 0 THEN "new" ELSE "configure", arg |-> size]
        /\ step = 0 /\ elapsed = 0 /\ capped = FALSE /\ twin = NoTwin /\ curve = NoCurve

\* The operation leaves the object as s, within the caps of the run.
Commit(s, op, arg) ==
    /\ Within(s)
    /\ Becomes(s)
    /\ last' = [op |-> op, arg |-> arg]
    /\ UNCHANGED timed

Start ==
    /\ Alive
    /\ Becomes(start(Self(<<>>)))
    /\ last' = [op |-> "start", arg |-> 0]
    /\ UNCHANGED timed

Stop ==
    /\ Alive
    /\ Becomes(stop(Self(<<>>)))
    /\ last' = [op |-> "stop", arg |-> 0]
    /\ UNCHANGED timed

Pause ==
    /\ Alive
    /\ Becomes(pause(Self(<<>>)))
    /\ last' = [op |-> "pause", arg |-> 0]
    /\ UNCHANGED timed

Reset ==
    /\ Alive
    /\ Becomes(reset(Self(<<>>)))
    /\ last' = [op |-> "reset", arg |-> 0]
    /\ UNCHANGED timed

EmitOf(num) ==
    /\ Alive
    /\ \E draws \in Streams(DrawsOfEmit(num)) :
          Commit(emit(Self(draws), num), "emit", num)

Emit == \E num \in 0..(MaxSize + 1) : EmitOf(num)

UpdateBy(dt) ==
    /\ Alive
    /\ \E draws \in Streams(DrawsOfUpdate(dt)) :
          Commit(update(Self(draws), dt), "update", dt)

Update == \E dt \in Steps : UpdateBy(dt)

SetInsertMode ==
    /\ Alive
    /\ \E mode \in Modes :
          /\ Becomes(setInsertMode(Self(<<>>), mode))
          /\ last' = [op |-> "setInsertMode", arg |-> 0]
          /\ UNCHANGED timed

Next ==
    \/ Start \/ Stop \/ Pause \/ Reset
    \/ Emit \/ Update
    \/ SetInsertMode

Spec == Init /\ [][Next]_vars

\* ------------------------------------------------ a moving emitter
Positions == {0, 1}

InitMove ==
    \E size \in 1..MaxSize :
        /\ Is(setEmissionRate(
                setParticleLifetime(ParticleSystem(size), 1, 1), TicksPerSecond))
        /\ last = [op |-> "configure", arg |-> size]
        /\ step = 0 /\ elapsed = 0 /\ capped = FALSE /\ twin = NoTwin /\ curve = NoCurve

SetPosition ==
    /\ Alive
    /\ \E x \in Positions :
          /\ Becomes(setPosition(Self(<<>>), x))
          /\ last' = [op |-> "setPosition", arg |-> x]
          /\ UNCHANGED timed

MoveTo ==
    /\ Alive
    /\ \E x \in Positions :
          /\ Becomes(moveTo(Self(<<>>), x))
          /\ last' = [op |-> "moveTo", arg |-> x]
          /\ UNCHANGED timed

NextMove == Update \/ SetPosition \/ MoveTo \/ Start \/ Pause

SpecMove == InitMove /\ [][NextMove]_vars

\* ------------------------------------------------------- a timed run
\* A fresh emitter with infinite lifetime, a constant rate r > 0 and a fixed
\* timestep; only update(step) is called.  capped records that the capacity
\* was binding: some addParticle call of the run returned at isFull.
ShortLives == {0, 1}

InitTimed ==
    \E size \in 1..MaxSize, mode \in Modes, r \in Rates \ {0},
       dt \in Steps \ {0}, pl \in ShortLives :
        /\ Is(setEmissionRate(
                setParticleLifetime(
                  setInsertMode(ParticleSystem(size), mode), pl, pl), r))
        /\ last = [op |-> "configure", arg |-> size]
        /\ step = dt /\ elapsed = 0 /\ capped = FALSE /\ twin = NoTwin /\ curve = NoCurve

\* One update of the run; it met the cap when it called addParticle more
\* often than it spawned.
Timed(s) ==
    /\ Becomes(s)
    /\ last' = [op |-> "update", arg |-> step]
    /\ step' = step
    /\ elapsed' = elapsed + step
    /\ capped' = (capped \/ s.attempts > s.spawned - spawned)
    /\ twin' = twin
    /\ curve' = curve

Tick ==
    /\ Alive
    /\ elapsed + step <= MaxElapsed
    /\ \E draws \in Streams(DrawsOfUpdate(step)) :
          Timed(update(Self(draws), step))

NextTimed == Tick

SpecTimed == InitTimed /\ [][NextTimed]_vars

\* ------------------------------------------- an emitter that expires
\* The emitter lifetimes of the run, in ticks.
Lifetimes == {0, 2}

\* A new system given a finite emitter lifetime, particles that live two
\* ticks and a rate; every operation of Next may follow.
InitLife ==
    \E size \in 1..MaxSize, l \in Lifetimes :
        /\ Is(setEmitterLifetime(
                setEmissionRate(
                  setParticleLifetime(ParticleSystem(size), 2, 2), TicksPerSecond), l))
        /\ last = [op |-> "configure", arg |-> size]
        /\ step = 0 /\ elapsed = 0 /\ capped = FALSE /\ twin = NoTwin /\ curve = NoCurve

SpecLife == InitLife /\ [][Next]_vars

\* ------------------------------------------- a restart beside a fresh emitter
\* The second system as the object of a call taking the given draws.
Called(t, draws) ==
    [t EXCEPT !.rng = draws, !.attempts = 0, !.removed = <<>>, !.born = <<>>,
              !.thrown = "none", !.newFails = "never"]

\* The number of draws update(dt) can take on the system t.
DrawsOfUpdateOf(t, dt) ==
    IF t.pMem = <<>> \/ dt = 0 THEN 0
    ELSE DueAfter(traverse(t, t.pHead, dt), dt)

\* A newly constructed system given the configuration of s.
Fresh(s) ==
    setPosition(
        setEmitterLifetime(
            setEmissionRate(
                setParticleLifetime(
                    setInsertMode(ParticleSystem(s.maxParticles), s.insertMode),
                    s.particleLifeMin, s.particleLifeMax),
                s.emissionRate),
            s.lifetime),
        s.position)

\* stop(), then start(); from here a fresh emitter runs beside this one.
Restart ==
    /\ Alive /\ twin = NoTwin
    /\ Becomes(start(stop(This)))
    /\ twin' = Fresh(This)
    /\ last' = [op |-> "restart", arg |-> 0]
    /\ UNCHANGED <<step, elapsed, capped, curve>>

\* Both systems have taken the same update.
Pair(s, t, dt) ==
    /\ Within(s) /\ Within(t)
    /\ Becomes(s)
    /\ twin' = t
    /\ last' = [op |-> "update", arg |-> dt]
    /\ UNCHANGED <<step, elapsed, capped, curve>>

PairUpdate ==
    /\ Alive /\ twin # NoTwin
    /\ \E dt \in Steps \ {0} :
          \E draws \in Streams(DrawsOfUpdate(dt)),
             others \in Streams(DrawsOfUpdateOf(twin, dt)) :
                Pair(update(Self(draws), dt), update(Called(twin, others), dt), dt)

\* Any history of calls, one restart, then updates only.
History == twin = NoTwin /\ Next

NextCycle == History \/ Restart \/ PairUpdate

\* A new system given a finite emitter lifetime, a rate and particles that
\* outlive the emission interval.
InitCycle ==
    \E size \in 1..MaxSize, l \in Lifetimes :
        /\ Is(setEmitterLifetime(
                setEmissionRate(
                  setParticleLifetime(ParticleSystem(size), 3, 3), TicksPerSecond), l))
        /\ last = [op |-> "configure", arg |-> size]
        /\ step = 0 /\ elapsed = 0 /\ capped = FALSE /\ twin = NoTwin /\ curve = NoCurve

SpecCycle == InitCycle /\ [][NextCycle]_vars

\* ----------------------------------------------------------------- clone
\* A history of the original, then clone(), then calls on the clone.  The
\* clone is the twin; twin.calls counts the calls made on it.
Calls == 0..1

DrawSetOf(t) ==
    [life : IF t.particleLifeMin = t.particleLifeMax THEN {0}
            ELSE t.particleLifeMin..t.particleLifeMax,
     rand : IF t.insertMode = "random" THEN 0..(t.maxParticles - 1) ELSE {0}]

StreamsOf(t, k) == [1..k -> DrawSetOf(t)]

DrawsOfEmitOf(t, num) ==
    IF t.active THEN Min(num, t.maxParticles - t.activeParticles) ELSE 0

Clone ==
    /\ Alive
    /\ twin = NoTwin
    /\ twin' = clone(This) @@ [calls |-> 0]
    /\ last' = [op |-> "clone", arg |-> 0]
    /\ UNCHANGED <<pMem, pFree, pHead, pTail, active, insertMode, maxParticles,
                   activeParticles, emissionRate, emitCounter, position,
                   prevPosition, lifetime, life, particleLifeMin,
                   particleLifeMax, quads, spawned, removed, attempts, born, fault,
                   thrown,
                   step, elapsed, capped, curve>>

\* The clone to call: it exists and takes the draws of the call.
Callable == Alive /\ twin # NoTwin /\ twin.calls \in Calls

\* What a call on the clone that left it as t does to the process: writes
\* through the clone's pointers land in the array they point into, a freed
\* array is gone, and a crash of the call is a crash of the process.
OnTwin(t, op, arg) ==
    /\ Within(t)
    /\ twin' = [t EXCEPT !.calls = @ + 1]
    /\ pMem' = IF twin.pMemAt # This.pMemAt THEN pMem
               ELSE IF t.pMemAt = twin.pMemAt THEN t.pMem ELSE <<>>
    /\ fault' = t.fault
    /\ thrown' = t.thrown
    /\ last' = [op |-> op, arg |-> arg]
    /\ UNCHANGED <<pFree, pHead, pTail, active, insertMode, maxParticles,
                   activeParticles, emissionRate, emitCounter, position,
                   prevPosition, lifetime, life, particleLifeMin,
                   particleLifeMax, quads, spawned, removed, attempts, born,
                   step, elapsed, capped, curve>>

CloneStart == Callable /\ OnTwin(start(Called(twin, <<>>)), "clone.start", 0)

CloneStop == Callable /\ OnTwin(stop(Called(twin, <<>>)), "clone.stop", 0)

ClonePause == Callable /\ OnTwin(pause(Called(twin, <<>>)), "clone.pause", 0)

CloneReset == Callable /\ OnTwin(reset(Called(twin, <<>>)), "clone.reset", 0)

CloneEmit ==
    /\ Callable
    /\ \E num \in 1..MaxSize :
       \E draws \in StreamsOf(twin, DrawsOfEmitOf(twin, num)) :
          OnTwin(emit(Called(twin, draws), num), "clone.emit", num)

CloneUpdate ==
    /\ Callable
    /\ \E dt \in Steps \ {0} :
       \E draws \in StreamsOf(twin, DrawsOfUpdateOf(twin, dt)) :
          OnTwin(update(Called(twin, draws), dt), "clone.update", dt)

CloneSetInsertMode ==
    /\ Callable
    /\ \E mode \in Modes :
          OnTwin(setInsertMode(Called(twin, <<>>), mode), "clone.setInsertMode", 0)

CloneSetEmissionRate ==
    /\ Callable
    /\ \E r \in Rates :
          OnTwin(setEmissionRate(Called(twin, <<>>), r), "clone.setEmissionRate", r)

CloneSetEmitterLifetime ==
    /\ Callable
    /\ \E l \in Lifetimes \cup {-1} :
          OnTwin(setEmitterLifetime(Called(twin, <<>>), l),
                 "clone.setEmitterLifetime", l)

CloneSetParticleLifetime ==
    /\ Callable
    /\ \E l \in 1..2 :
          OnTwin(setParticleLifetime(Called(twin, <<>>), l, l),
                 "clone.setParticleLifetime", l)

CloneSetPosition ==
    /\ Callable
    /\ \E x \in Positions :
          OnTwin(setPosition(Called(twin, <<>>), x), "clone.setPosition", x)

CloneSetBufferSize ==
    /\ Callable
    /\ \E size \in 1..MaxSize :
          OnTwin(setBufferSize(Called(twin, <<>>), size), "clone.setBufferSize", size)

\* The calls on the clone.
OnClone ==
    {"clone.start", "clone.stop", "clone.pause", "clone.reset", "clone.emit",
     "clone.update", "clone.setInsertMode", "clone.setEmissionRate",
     "clone.setEmitterLifetime", "clone.setParticleLifetime",
     "clone.setPosition", "clone.setBufferSize"}

Original ==
    /\ twin = NoTwin
    /\ Emit \/ Update \/ Pause

NextClone ==
    \/ Original
    \/ Clone
    \/ CloneStart \/ CloneStop \/ ClonePause \/ CloneReset
    \/ CloneEmit \/ CloneUpdate
    \/ CloneSetInsertMode \/ CloneSetEmissionRate \/ CloneSetEmitterLifetime
    \/ CloneSetParticleLifetime \/ CloneSetPosition \/ CloneSetBufferSize

\* A new system given an insert mode, a finite emitter lifetime, particles
\* that live two ticks and a rate.
InitClone ==
    \E size \in 1..MaxSize, mode \in Modes :
        /\ Is(setInsertMode(
                setEmitterLifetime(
                  setEmissionRate(
                    setParticleLifetime(ParticleSystem(size), 2, 2),
                    TicksPerSecond), 2), mode))
        /\ last = [op |-> "configure", arg |-> size]
        /\ step = 0 /\ elapsed = 0 /\ capped = FALSE /\ twin = NoTwin /\ curve = NoCurve

SpecClone == InitClone /\ [][NextClone]_vars

\* ------------------------------------------------- particles of unequal life
\* A system whose particles draw their life from [min, max], in each insert
\* mode: emit, update and pause.
LifeBounds == {<<0, 2>>}

InitLives ==
    \E size \in 1..MaxSize, mode \in Modes, b \in LifeBounds :
        /\ Is(setEmissionRate(
                setParticleLifetime(
                  setInsertMode(ParticleSystem(size), mode), b[1], b[2]),
                TicksPerSecond))
        /\ last = [op |-> "configure", arg |-> size]
        /\ step = 0 /\ elapsed = 0 /\ capped = FALSE /\ twin = NoTwin /\ curve = NoCurve

NextLives == EmitOf(1) \/ Update \/ Pause

SpecLives == InitLives /\ [][NextLives]_vars

\* ------------------------------------------------------------ the curves
\* The size and colour evaluation update makes for one surviving particle.
\* t = 1 - life / lifetime, sizeVariation, the two draws of initParticle and
\* every interpolation variable are whole numbers of 1/Grain (of 1/Grain^2
\* where two are multiplied); a value is the fraction <<numerator,
\* denominator>>.  A colour is one component.
Levels == {0, 1}

Variations == {0, 1}

Arrays == UNION {[1..n -> Levels] : n \in 1..MaxPoints}

\* Not evaluated yet.
NotYet == <<>>

\* What a read outside the array yields.
Garbage == "garbage"

\* float s = p->sizeOffset + t * p->sizeIntervalSize
sizePosition(c) ==
    <<c.sizeOffset * Grain + c.t * c.sizeIntervalSize, Grain * Grain>>

\* s = t, for the colours
colorPosition(c) == <<c.t, Grain>>

\* s *= (float)(v.size() - 1); size_t i = (size_t) s;
index(v, s) == (s[1] * (Len(v) - 1)) \div s[2]

\* s -= (float) i, in units of 1/s[2]
rest(v, s) == (s[1] * (Len(v) - 1)) % s[2]

\* k without the boundary check.
successor_m(v, i) == i + 1

\* size_t k = (i == v.size() - 1) ? i : i + 1;
successor(v, i) == IF i = Len(v) - 1 THEN i ELSE i + 1

\* v[i] * (1.0f - s) + v[k] * s
blend(v, i, k, r, den) ==
    IF {i, k} \subseteq 0..(Len(v) - 1)
    THEN <<v[i + 1] * (den - r) + v[k + 1] * r, den>>
    ELSE Garbage

\* The evaluation of the curve with control points v at position s: the two
\* indices read and the value.
interpolate(v, s) ==
    [i |-> index(v, s),
     k |-> successor(v, index(v, s)),
     value |-> blend(v, index(v, s), successor(v, index(v, s)), rest(v, s), s[2])]

\* A particle of a new system: its curves, its draws and its age.
InitCurve ==
    /\ Is(ParticleSystem(1))
    /\ last = [op |-> "new", arg |-> 1]
    /\ step = 0 /\ elapsed = 0 /\ capped = FALSE /\ twin = NoTwin
    /\ \E sizes \in Arrays, colors \in Arrays, variation \in Variations, t \in 0..Grain :
       \E first \in 0..variation, second \in 0..variation :
          curve = [sizes |-> sizes, colors |-> colors, t |-> t,
                   sizeVariation |-> variation,
                   sizeOffset |-> first,
                   sizeIntervalSize |-> (Grain - second) - first,
                   size |-> NotYet, color |-> NotYet]

\* p->size = ...; p->color = ...
UpdateCurves ==
    /\ curve.size = NotYet
    /\ curve' = [curve EXCEPT
                   !.size = interpolate(curve.sizes, sizePosition(curve)),
                   !.color = interpolate(curve.colors, colorPosition(curve))]
    /\ UNCHANGED <<pMem, pFree, pHead, pTail, active, insertMode, maxParticles,
                   activeParticles, emissionRate, emitCounter, position,
                   prevPosition, lifetime, life, particleLifeMin,
                   particleLifeMax, quads, spawned, removed, attempts, born, fault,
                   thrown,
                   last, step, elapsed, capped, twin>>

NextCurve == UpdateCurves

SpecCurve == InitCurve /\ [][NextCurve]_vars

\* ------------------------------------------------- sprite regions
\* The lengths of the region lists given to setQuads.
Lengths == 0..3

\* A system whose particles live up to three ticks: emit(1), update(1),
\* setQuads and draw.
InitQuads ==
    \E size \in 1..MaxSize :
        /\ Is(setEmissionRate(
                setParticleLifetime(ParticleSystem(size), 0, 3), TicksPerSecond))
        /\ last = [op |-> "configure", arg |-> size]
        /\ step = 0 /\ elapsed = 0 /\ capped = FALSE /\ twin = NoTwin /\ curve = NoCurve

SetQuads ==
    /\ Alive
    /\ \E k \in Lengths : Commit(setQuads(This, k), "setQuads", k)

Draw ==
    /\ Alive
    /\ \E outcome \in {"none", "wild"} : Commit(draw(This, outcome), "draw", 0)

NextQuads == EmitOf(1) \/ UpdateBy(1) \/ SetQuads \/ Draw

SpecQuads == InitQuads /\ [][NextQuads]_vars

\* ------------------------------------------------------- a longer list
\* A system of one slot more than MaxSize whose particles live one or two
\* ticks: emit(1), update(1) and setInsertMode, until every slot has been
\* filled once.
Room(s) ==
    \/ ~Ok(s)
    \/ /\ s.spawned <= MaxSize + 1
       /\ s.emitCounter <= MaxCounter
       /\ s.life >= -1 - MaxAge

Roomy(s, op, arg) ==
    /\ Room(s)
    /\ Becomes(s)
    /\ last' = [op |-> op, arg |-> arg]
    /\ UNCHANGED timed

EmitOne ==
    /\ Alive
    /\ \E draws \in Streams(DrawsOfEmit(1)) :
          Roomy(emit(Self(draws), 1), "emit", 1)

UpdateOne ==
    /\ Alive
    /\ \E draws \in Streams(DrawsOfUpdate(1)) :
          Roomy(update(Self(draws), 1), "update", 1)

InitOrder ==
    /\ Is(setEmissionRate(
            setParticleLifetime(ParticleSystem(MaxSize + 1), 1, 2),
            TicksPerSecond))
    /\ last = [op |-> "configure", arg |-> MaxSize + 1]
    /\ step = 0 /\ elapsed = 0 /\ capped = FALSE /\ twin = NoTwin /\ curve = NoCurve

NextOrder == EmitOne \/ UpdateOne \/ SetInsertMode

SpecOrder == InitOrder /\ [][NextOrder]_vars

\* ---------------------------------------------------------------- resize
\* start, stop, pause, reset, emit and update on a system of the largest
\* size that inserts at the top, setBufferSize
\* with sizes on both sides of the accepted range and with either allocation
\* failing, and setEmissionRate with rates on both sides of zero.
Sizes == {0, 1, MAX_PARTICLES, MAX_PARTICLES + 1}

Failures == {"never", "Particle", "Vertex"}

SetBufferSize ==
    /\ Alive
    /\ \E size \in Sizes, f \in Failures :
          Commit(setBufferSize([This EXCEPT !.newFails = f], size),
                 "setBufferSize", size)

SetEmissionRate ==
    /\ Alive
    /\ \E r \in {-1, 0, TicksPerSecond} :
          Commit(setEmissionRate(This, r), "setEmissionRate", r)

NextResize ==
    \/ Start \/ Stop \/ Pause \/ Reset
    \/ EmitOf(1) \/ UpdateBy(1)
    \/ SetBufferSize \/ SetEmissionRate

InitResize ==
    /\ Is(setEmitterLifetime(
            setEmissionRate(
              setParticleLifetime(ParticleSystem(MaxSize), 2, 2), TicksPerSecond), 2))
    /\ last = [op |-> "configure", arg |-> MaxSize]
    /\ step = 0 /\ elapsed = 0 /\ capped = FALSE /\ twin = NoTwin /\ curve = NoCurve

SpecResize == InitResize /\ [][NextResize]_vars

\* ------------------------------------------- a rate that changes
\* A run some ticks longer than Within allows, so that the accumulator of an
\* emitter that spawns nothing passes several intervals of a later rate.
Longer(s) ==
    \/ ~Ok(s)
    \/ /\ s.spawned <= MaxSpawned
       /\ s.emitCounter <= MaxCounter + 1
       /\ s.life >= -3 - MaxAge

Lasting(s, op, arg) ==
    /\ Longer(s)
    /\ Becomes(s)
    /\ last' = [op |-> op, arg |-> arg]
    /\ UNCHANGED timed

UpdateTick ==
    /\ Alive
    /\ \E draws \in Streams(DrawsOfUpdate(1)) :
          Lasting(update(Self(draws), 1), "update", 1)

SetRate ==
    /\ Alive
    /\ \E r \in Rates : Lasting(setEmissionRate(This, r), "setEmissionRate", r)

NextBurst == UpdateTick \/ SetRate \/ Start \/ Pause

SpecBurst == Init /\ [][NextBurst]_vars

\* ------------------------------------- a moving emitter that is resized
\* The moving emitter with setBufferSize, whose allocations may fail.
NextShift == NextMove \/ SetBufferSize

SpecShift == InitMove /\ [][NextShift]_vars

\* --------------------------------------------------------- list helpers
\* The slots met by following next from p, at most n of them.
RECURSIVE Forward(_, _, _)
Forward(m, p, n) ==
    IF p \notin DOMAIN m \/ n = 0 THEN <<>>
    ELSE <<p>> \o Forward(m, m[p].next, n - 1)

\* The slots met by following prev from p, at most n of them.
RECURSIVE Backward(_, _, _)
Backward(m, p, n) ==
    IF p \notin DOMAIN m \/ n = 0 THEN <<>>
    ELSE <<p>> \o Backward(m, m[p].prev, n - 1)

Reverse(q) == [i \in 1..Len(q) |-> q[Len(q) + 1 - i]]

Range(q) == {q[i] : i \in 1..Len(q)}

\* The active list, head first, as slots; one step more than the buffer holds
\* so that a cycle or an overlong list shows.
List == Forward(pMem, pHead, maxParticles + 1)

\* ------------------------------------------------------------------ C1
\* C1: after any sequence of emit, update, start, stop, pause and reset
\* calls, in any insert mode, 0 <= activeParticles <= maxParticles.
CapacityInvariant == 0 <= activeParticles /\ activeParticles <= maxParticles

\* An emit that asked for more than the buffer holds has filled it.
CapacityReached ==
    /\ last.op = "emit" /\ last.arg > maxParticles
    /\ activeParticles = maxParticles

\* ------------------------------------------------------------------ C2
\* C2: following next from pHead visits exactly activeParticles distinct
\* nodes and the last one is pTail, following prev from pTail visits the same
\* nodes in reverse and ends at pHead, and pHead and pTail are both null
\* exactly when activeParticles is 0.
ListIntegrity ==
    /\ Len(List) = activeParticles
    /\ Cardinality(Range(List)) = activeParticles
    /\ activeParticles > 0 =>
          /\ List[Len(List)] = pTail
          /\ pMem[pTail].next = nullptr
          /\ pMem[pHead].prev = nullptr
    /\ Backward(pMem, pTail, maxParticles + 1) = Reverse(List)
    /\ (pHead = nullptr) <=> (activeParticles = 0)
    /\ (pTail = nullptr) <=> (activeParticles = 0)

\* ------------------------------------------------------------------ C3
\* C3: the free boundary equals activeParticles, the slots linked in the
\* active list are exactly the slots [0, activeParticles), and every prev and
\* next link of a linked node is null or a slot below the free boundary.
CompactionCorrectness ==
    /\ pFree = activeParticles
    /\ Range(List) = 0..(activeParticles - 1)
    /\ \A q \in Range(List) :
          /\ pMem[q].prev \in {nullptr} \cup 0..(pFree - 1)
          /\ pMem[q].next \in {nullptr} \cup 0..(pFree - 1)

\* ------------------------------------------------------------------ C4
\* C4: every removeParticle(p) call returns the slot that holds, after the
\* compaction, the particle that followed p before the call, and returns null
\* exactly when no particle followed p (p was the tail).
RemoveReturnsSuccessor ==
    \A i \in 1..Len(removed) :
        /\ removed[i].ret = removed[i].succ
        /\ removed[i].null <=> (removed[i].succ = 0)

\* A removal whose successor sat in the physically last slot and was moved.
RemovedWithMovedSuccessor ==
    \E i \in 1..Len(removed) :
        /\ removed[i].moved
        /\ removed[i].succ # 0
        /\ removed[i].ret = removed[i].succ

\* ------------------------------------------------------------------ C5
\* C5: emit(n) while active raises activeParticles by exactly
\* min(n, maxParticles - activeParticles); emit(n) while not active leaves the
\* whole state unchanged.
EmitRaisesByMin ==
    [][last'.op = "emit" =>
          IF active
          THEN activeParticles' =
                   activeParticles + Min(last'.arg, maxParticles - activeParticles)
          ELSE UNCHANGED fields]_vars

\* ------------------------------------------------------------------ C6
\* C6: update(0) leaves every particle, the active list, activeParticles,
\* emitCounter, the emitter's remaining life, the active flag and the previous
\* emitter position unchanged.
UpdateZeroIsNoOp ==
    [][last'.op = "update" /\ last'.arg = 0 => UNCHANGED fields]_vars

\* update(0) has run on a moved emitter with live particles.
UpdateZeroOnMovedEmitter ==
    /\ last.op = "update" /\ last.arg = 0
    /\ prevPosition # position
    /\ activeParticles > 0

\* ------------------------------------------------------------------ C7
\* floor(T * r) for the time the run has covered.
Expected == (elapsed * emissionRate) \div TicksPerSecond

\* C7: for a fresh active emitter with infinite lifetime, constant rate r > 0,
\* fixed timestep and capacity never binding, the number of particles the
\* updates covering time T have spawned differs from floor(T * r) by at most 1.
EmissionCountWithinOne ==
    ~capped => spawned - Expected \in -1..1

\* A run of several updates that is one spawn short of floor(T * r).
EmissionCountOneShort ==
    /\ ~capped /\ elapsed > step /\ step > 0
    /\ spawned > 0
    /\ spawned = Expected - 1

\* ------------------------------------------------------------------ C8
\* The timestep is the emission interval: dt = 1 / r.
StepIsInterval == step > 0 /\ step * emissionRate = TicksPerSecond

\* C8 as stated: with dt = 1 / r the run has spawned exactly T * r particles
\* after covering time T.
EmissionCountExact ==
    StepIsInterval /\ ~capped => spawned * TicksPerSecond = elapsed * emissionRate

\* C8 as amended: with dt = 1 / r the run has spawned exactly T * r - 1
\* particles after covering time T > 0, and none at T = 0.
EmissionCountExactLessOne ==
    StepIsInterval /\ ~capped =>
        IF elapsed = 0 THEN spawned = 0
        ELSE (spawned + 1) * TicksPerSecond = elapsed * emissionRate

\* Ten intervals of such a run would give nine spawns; here, several of them.
EmissionAfterSeveralIntervals ==
    /\ StepIsInterval /\ ~capped
    /\ elapsed >= 3 * step
    /\ (spawned + 1) * TicksPerSecond = elapsed * emissionRate

\* ------------------------------------------------------------------ C9
\* The object after the traversal of update(dt), where its emission step starts.
Traversed(dt) == traverse(This, pHead, dt)

\* The emission step of update(dt) is due more spawns than s has free slots.
Saturating(s, dt) ==
    /\ Ok(s) /\ s.active
    /\ Due(s.emitCounter + dt, rate(s)) > s.maxParticles - s.activeParticles

\* The spawns of the step: exactly the free slots of s, the buffer full, no error.
Saturated(s) ==
    /\ spawned' - s.spawned = s.maxParticles - s.activeParticles
    /\ activeParticles' = maxParticles'
    /\ fault' = "none"

\* C9: when an update's emission step is due to spawn more particles than
\* there are free slots, it spawns exactly the free-slot count, ends with
\* activeParticles = maxParticles and raises no error.
PoolFullSaturation ==
    [][\A dt \in Steps \ {0} :
          last'.op = "update" /\ last'.arg = dt /\ Saturating(Traversed(dt), dt)
              => Saturated(Traversed(dt))]_vars

\* ------------------------------------------------------------------ C10
\* C10 as stated: a newly constructed system is Stopped (isActive false,
\* isStopped true), and emit and update spawn no particle before start().
NewSystemIsStopped ==
    [][last.op = "new" =>
          /\ ~isActive(This) /\ isStopped(This)
          /\ last'.op \in {"emit", "update"} => spawned' = spawned]_vars

\* C10 as amended: a newly constructed system is Playing (isActive true,
\* isStopped and isPaused false); emit(n) spawns min(n, maxParticles)
\* particles without start(), and update spawns none at the initial rate 0.
NewSystemIsPlaying ==
    [][last.op = "new" =>
          /\ isActive(This) /\ ~isStopped(This) /\ ~isPaused(This)
          /\ last'.op = "emit" => spawned' = Min(last'.arg, maxParticles)
          /\ last'.op = "update" => spawned' = spawned]_vars

\* The constructor has returned an active system.
NewSystemActive ==
    /\ last.op = "new"
    /\ isActive(This) /\ ~isStopped(This)
    /\ activeParticles = 0 /\ emissionRate = 0

\* ---------------------------------------------------------- frames
\* The members other than the active flag.
allButActive ==
    <<pMem, pFree, pHead, pTail, insertMode, maxParticles, activeParticles,
      emissionRate, emitCounter, position, prevPosition, lifetime, life,
      particleLifeMin, particleLifeMax, quads>>

\* The particles, the list and the counts of the pool.
pool == <<pMem, pFree, pHead, pTail, maxParticles, activeParticles>>

\* What the state queries read, once the step is taken.
Then == [active |-> active', life |-> life', lifetime |-> lifetime']

\* ------------------------------------------------------------------ C11
\* C11: start() makes the emitter active and changes nothing else: the
\* remaining life, emitCounter, activeParticles and every particle and list
\* link are unchanged.
StartOnlyActivates ==
    [][last'.op = "start" => active' /\ UNCHANGED allButActive]_vars

\* start() has run on an emitter with accumulated time, used life and particles.
StartedWithHistory ==
    /\ last.op = "start" /\ active
    /\ emitCounter > 0 /\ life < lifetime /\ activeParticles > 0

\* ------------------------------------------------------------------ C12
\* C12: stop() from any state leaves the system Stopped (not active,
\* isStopped true, isPaused false) with the remaining life equal to the
\* configured lifetime and emitCounter 0, while activeParticles, the particles
\* and the active list are unchanged.
StopStops ==
    [][last'.op = "stop" =>
          /\ ~isActive(Then) /\ isStopped(Then) /\ ~isPaused(Then)
          /\ life' = lifetime /\ emitCounter' = 0
          /\ UNCHANGED pool /\ UNCHANGED lifetime]_vars

\* stop() has run and left particles in the list.
StoppedWithParticles ==
    /\ last.op = "stop" /\ isStopped(This)
    /\ activeParticles > 0 /\ pHead # nullptr

\* ------------------------------------------------------------------ C13
\* C13 as stated: pause() called in the Playing state always leaves isPaused()
\* true and isStopped() false.
PauseAlwaysPauses ==
    [][last'.op = "pause" /\ active => isPaused(Then) /\ ~isStopped(Then)]_vars

\* C13 as amended: pause() called in the Playing state makes the emitter not
\* active and changes nothing else; afterwards isPaused() is true and
\* isStopped() false exactly when the remaining life is below the configured
\* lifetime, and isStopped() is true and isPaused() false when it is not.
PauseKeepsLife ==
    [][last'.op = "pause" /\ active =>
          /\ ~isActive(Then) /\ UNCHANGED allButActive
          /\ isPaused(Then) <=> life < lifetime
          /\ isStopped(Then) <=> life >= lifetime]_vars

\* pause() has run before any update used up life: the system reports Stopped.
PausedReportsStopped ==
    /\ last.op = "pause" /\ ~active
    /\ life = lifetime
    /\ isStopped(This) /\ ~isPaused(This)

\* ------------------------------------------------------------------ C14
\* The particles of the pool: the slots below the free boundary.
Allocated == 0..(pFree - 1)

\* The particle in slot q has aged by dt: it is in the pool afterwards with
\* dt less life when that is positive, and is gone from it when it is not.
AgedBy(q, dt) ==
    IF pMem[q].life - dt > 0
    THEN \E r \in 0..(pFree' - 1) :
            /\ pMem'[r].id = pMem[q].id
            /\ pMem'[r].life = pMem[q].life - dt
    ELSE \A r \in 0..(pFree' - 1) : pMem'[r].id # pMem[q].id

\* C14: while the emitter is not active, update(dt) with dt > 0 spawns no
\* particle and leaves emitCounter and the remaining life unchanged, but ages
\* every active particle by dt and removes the expired ones, so
\* activeParticles never increases.
InactiveUpdateOnlyAges ==
    [][~active /\ last'.op = "update" /\ last'.arg > 0 =>
          /\ spawned' = spawned
          /\ emitCounter' = emitCounter /\ life' = life
          /\ activeParticles' <= activeParticles
          /\ \A q \in Allocated : AgedBy(q, last'.arg)]_vars

\* ------------------------------------------------------------------ C15
\* The pool is empty once the step is taken.
EmptyThen ==
    /\ activeParticles' = 0
    /\ pHead' = nullptr /\ pTail' = nullptr
    /\ pFree' = 0

\* C15: after reset() on an allocated pool activeParticles is 0, the list is
\* empty, the free boundary is at slot 0, emitCounter is 0 and the remaining
\* life equals the configured lifetime; a following update in which nothing
\* is emitted leaves the pool empty.
ResetClearsPool ==
    [][/\ last'.op = "reset" /\ pMem # <<>> =>
              EmptyThen /\ emitCounter' = 0 /\ life' = lifetime
       /\ last.op = "reset" /\ last'.op = "update" /\ spawned' = spawned =>
              EmptyThen]_vars

\* reset() has run on a pool that held particles.
ResetAfterParticles ==
    /\ last.op = "reset"
    /\ pMem[0].id > 0
    /\ activeParticles = 0 /\ pHead = nullptr

StopsIn(dt) ==
    /\ spawned' - spawned = DueAfter(Traversed(dt), dt)
    /\ ~isActive(Then) /\ isStopped(Then)
    /\ emitCounter' = 0
    /\ life' = lifetime

\* update(dt) of such an emitter with at least dt of life left: it stays
\* Playing with dt less life.
RunsOn(dt) == isActive(Then) /\ life' = life - dt

\* C17: with a finite emitter lifetime L >= 0 and the emitter Playing, every
\* update(dt > 0) takes dt off the remaining life, so that repeated updates
\* reach the stop; the emitter is stopped in the first update that brings the
\* remaining life strictly below zero, after that tick's spawns, and right
\* after it the emitter is not active, emitCounter is 0 and the remaining
\* life equals L.
AutomaticStop ==
    [][active /\ lifetime >= 0 /\ last'.op = "update" /\ last'.arg > 0 =>
          IF life - last'.arg < 0 THEN StopsIn(last'.arg)
          ELSE RunsOn(last'.arg)]_vars

\* ------------------------------------------------------------------ C18
\* Some addParticle call of the step found this pool or the fresh one full.
Binding ==
    \/ attempts' > spawned' - spawned
    \/ twin'.attempts > twin'.spawned - twin.spawned

\* C18: after any history, stop() followed by start() leaves the emission
\* scheduler equivalent to a fresh emitter with the same configuration: in
\* every following update(dt) with capacity not binding, this emitter spawns
\* as many particles as the fresh one, completes the call as the fresh one
\* does, and is stopped automatically in the same tick.
RestartMatchesFresh ==
    [][twin # NoTwin /\ twin' # NoTwin /\ last'.op = "update" /\ ~Binding =>
          /\ spawned' - spawned = twin'.spawned - twin.spawned
          /\ fault' = twin'.fault
          /\ active' = twin'.active]_vars

CloneIndependence ==
    [][last'.op \in OnClone \cup {"clone"} => UNCHANGED fields]_vars

\* A second call on the clone has spawned particles in it beside an original
\* that holds particles of its own.
CloneRanBesideOriginal ==
    /\ twin # NoTwin
    /\ last.op \in {"clone.emit", "clone.update"}
    /\ twin.calls = 2
    /\ twin.activeParticles > 0
    /\ activeParticles > 0
    /\ fault = "none"

\* ------------------------------------------------------------- C21
\* C21: setBufferSize(size) with size == 0 or size > MAX_PARTICLES fails with
\* an error and leaves the previous buffer untouched: the capacity, the
\* number of active particles, every particle, the active list, emitCounter
\* and the emitter's remaining life are unchanged.
InvalidSizeLeavesBuffer ==
    [][/\ last'.op = "setBufferSize"
       /\ last'.arg = 0 \/ last'.arg > MAX_PARTICLES
       => /\ thrown' = "Invalid buffer size"
          /\ UNCHANGED fields]_vars

\* A size above the maximum was refused on a system that holds particles and
\* has accumulated emission time.
OversizeRefusedWhileRunning ==
    /\ last.op = "setBufferSize" /\ last.arg > MAX_PARTICLES
    /\ thrown = "Invalid buffer size"
    /\ activeParticles > 0 /\ pHead # nullptr
    /\ emitCounter > 0 /\ life < lifetime

\* ------------------------------------------------------------- C22
\* C22: when the reallocation inside setBufferSize fails, the call fails with
\* an error and leaves a safe, fully empty system: capacity 0, no active
\* particle, an empty active list (head and tail null, the free boundary not
\* pointing into released storage), and every emit or update that follows is
\* a no-op until a resize succeeds.
FailedResizeLeavesEmpty ==
    [][/\ last'.op = "setBufferSize" /\ thrown' = "Out of memory"
          => /\ pMem' = <<>>
             /\ maxParticles' = 0 /\ activeParticles' = 0
             /\ pHead' = nullptr /\ pTail' = nullptr
             /\ pFree' = nullptr
       /\ pMem = <<>> /\ last'.op \in {"emit", "update"}
          => UNCHANGED fields]_vars

\* ------------------------------------------------------------- C23
\* C23: setEmissionRate(rate) with rate < 0 fails with an error and leaves
\* the emission rate and all other state unchanged; so the stored emission
\* rate is >= 0 in every reachable state.
RateNeverNegative ==
    /\ [](emissionRate >= 0)
    /\ [][last'.op = "setEmissionRate" /\ last'.arg < 0
          => /\ thrown' = "Invalid emission rate"
             /\ UNCHANGED fields]_vars

\* A negative rate was refused on a system that holds particles.
NegativeRateRefused ==
    /\ last.op = "setEmissionRate" /\ last.arg < 0
    /\ thrown = "Invalid emission rate"
    /\ emissionRate > 0
    /\ activeParticles > 0

\* ------------------------------------------------------------- C24
\* C24: with emission rate 0 and the emitter active, update(dt) spawns no
\* particle in that tick and completes without a division-by-zero failure;
\* the integrator and the countdown of the emitter's life still run.
ZeroRateTick ==
    /\ last'.op = "update" /\ last'.arg > 0
    /\ pMem # <<>> /\ active /\ emissionRate = 0

ParticleLifeInvariant ==
    /\ [](\A q \in Allocated :
            0 <= pMem[q].life /\ pMem[q].life <= pMem[q].lifetime)
    /\ [][\A q \in Allocated : \A r \in 0..(pFree' - 1) :
            pMem'[r].id = pMem[q].id => pMem'[r].lifetime = pMem[q].lifetime]_vars

\* An update removed a particle and moved one that has aged, of another
\* lifetime, into its slot.
AgedParticleMoved ==
    /\ last.op = "update"
    /\ \E i \in 1..Len(removed) : removed[i].ret # 0 /\ removed[i].moved
    /\ \E q \in Allocated :
          0 < pMem[q].life /\ pMem[q].life < pMem[q].lifetime

\* ------------------------------------------------------------- C26
\* The ids of the particles met from head h by following next in array m.
Ids(m, h, n) == [i \in 1..Len(Forward(m, h, n)) |-> m[Forward(m, h, n)[i]].id]

\* The ids of the particles in the pool after the step.
Kept == {pMem'[r].id : r \in 0..(pFree' - 1)}

\* The traversal order before the step, without the particles it removed.
Survivors == SelectSeq(Ids(pMem, pHead, maxParticles + 1), LAMBDA i : i \in Kept)

\* The particles the step spawned, in spawn order.
Newcomers == [i \in 1..(spawned' - spawned) |-> spawned + i]

\* C26: in top mode every newly spawned particle becomes the tail of the
\* active list, so the traversal order is the spawn order; in bottom mode
\* every newly spawned particle becomes the head, so the traversal order is
\* the reverse spawn order; also when removals happen in between.
InsertOrder ==
    [][spawned' > spawned /\ insertMode \in {"top", "bottom"} =>
          /\ fault' = "none"
          /\ IdAt(Self(<<>>)', IF insertMode = "top" THEN pTail' ELSE pHead')
                = spawned'
          /\ Ids(pMem', pHead', maxParticles' + 1)
                = IF insertMode = "top"
                  THEN Survivors \o Newcomers
                  ELSE Reverse(Newcomers) \o Survivors]_vars

\* ------------------------------------------------------------- C27
\* The value is exactly the control point x.
Exactly(value, x) == value # Garbage /\ value[1] = x * value[2]

Evaluated == curve # NoCurve /\ curve.size # NotYet

\* C27: for a control-point array of any length n >= 1, the evaluation used
\* by update yields exactly the first control point at curve position 0 and
\* exactly the last at curve position 1 (the colour curve at t, the size curve
\* at sizeOffset + t * sizeIntervalSize with zero size variation), never reads
\* an index outside [0, n - 1], and is constant when n == 1.
CurveBoundaries ==
    Evaluated =>
        /\ {curve.size.i, curve.size.k} \subseteq 0..(Len(curve.sizes) - 1)
        /\ {curve.color.i, curve.color.k} \subseteq 0..(Len(curve.colors) - 1)
        /\ curve.t = 0 =>
              Exactly(curve.color.value, curve.colors[1])
        /\ curve.t = Grain =>
              Exactly(curve.color.value, curve.colors[Len(curve.colors)])
        /\ curve.t = 0 /\ curve.sizeVariation = 0 =>
              Exactly(curve.size.value, curve.sizes[1])
        /\ curve.t = Grain /\ curve.sizeVariation = 0 =>
              Exactly(curve.size.value, curve.sizes[Len(curve.sizes)])
        /\ Len(curve.colors) = 1 =>
              Exactly(curve.color.value, curve.colors[1])
        /\ Len(curve.sizes) = 1 =>
              Exactly(curve.size.value, curve.sizes[1])

\* Both curves were evaluated at position 1, with several control points
\* whose last differs from the one before it.
CurvesEvaluatedAtEnd ==
    /\ Evaluated
    /\ curve.t = Grain /\ curve.sizeVariation = 0
    /\ Len(curve.sizes) > 1 /\ Len(curve.colors) > 1
    /\ curve.sizes[Len(curve.sizes)] # curve.sizes[Len(curve.sizes) - 1]
    /\ curve.colors[Len(curve.colors)] # curve.colors[Len(curve.colors) - 1]
    /\ curve.size.i = Len(curve.sizes) - 1
    /\ curve.color.i = Len(curve.colors) - 1

\* ------------------------------------------------------------- C28
\* C28: a successful setBufferSize(n) with 1 <= n <= MAX_PARTICLES discards
\* all particles and resets all runtime state (capacity n, no active
\* particle, an empty active list, emitCounter 0, remaining emitter life equal
\* to the configured lifetime), and no other operation ever changes the
\* capacity.
ResizeResets ==
    [][/\ last'.op = "setBufferSize" /\ thrown' = "none"
          => /\ last'.arg \in 1..MAX_PARTICLES
             /\ maxParticles' = last'.arg
             /\ pMem' = [q \in 0..(last'.arg - 1) |-> Uninitialised]
             /\ activeParticles' = 0 /\ pFree' = 0
             /\ pHead' = nullptr /\ pTail' = nullptr
             /\ emitCounter' = 0
             /\ life' = lifetime /\ lifetime' = lifetime
       /\ last'.op # "setBufferSize"
          => maxParticles' = maxParticles]_vars

\* A resize to another capacity succeeded on a system that had spawned
\* particles and used up part of its life; nothing of that is left.
ResizedAfterRun ==
    /\ last.op = "setBufferSize" /\ thrown = "none"
    /\ maxParticles = last.arg /\ maxParticles # MaxSize
    /\ spawned > 0
    /\ activeParticles = 0 /\ life = lifetime

\* ------------------------------------------------------------- C29
\* The ids of the particles that update(dt) finds expired.
Expiring(dt) == {pMem[q].id : q \in {r \in Allocated : pMem[r].life - dt <= 0}}

\* The ids the removeParticle calls of the traversal that left t removed.
Gone(t) == {t.removed[i].id : i \in 1..Len(t.removed)}

\* The particle in slot q is, in t, the system as the traversal of update(dt)
\* leaves it, gone when it expired and dt older and alive when it did not.
AgedOnce(t, q, dt) ==
    IF pMem[q].life - dt <= 0
    THEN \A r \in 0..(t.pFree - 1) : t.pMem[r].id # pMem[q].id
    ELSE \E r \in 0..(t.pFree - 1) :
            /\ t.pMem[r].id = pMem[q].id
            /\ t.pMem[r].life = pMem[q].life - dt

\* The traversal of update(dt) that leaves t aged every particle once and
\* removed exactly the expired ones, each once.
TraversalAges(t, dt) ==
    /\ Ok(t)
    /\ \A q \in Allocated : AgedOnce(t, q, dt)
    /\ Gone(t) = Expiring(dt)
    /\ Len(t.removed) = Cardinality(Expiring(dt))

\* C29: during one update(dt) with dt > 0, every particle that was active at
\* the start of the tick has its life decreased by dt exactly once, whatever
\* the list order and whichever particles are removed and compacted during
\* the traversal; exactly the particles whose decreased life is <= 0 are
\* removed, and every survivor has life > 0 afterwards.
EveryParticleAgedOnce ==
    [][last'.op = "update" /\ last'.arg > 0 /\ pMem # <<>> =>
          TraversalAges(Traversed(last'.arg), last'.arg)]_vars

\* ------------------------------------------------------------- C30
\* t, the system as the traversal of update leaves it, holds the list of
\* before without the removed particles, in the order of before.
OrderKept(t) ==
    /\ Ok(t)
    /\ Ids(t.pMem, t.pHead, t.maxParticles + 1)
          = SelectSeq(Ids(pMem, pHead, maxParticles + 1),
                      LAMBDA i : i \notin Gone(t))

\* C30: removing a particle preserves the relative traversal order of all
\* remaining particles: the list after removeParticle(p) is the list before
\* with p deleted, even though the compaction moves the physically last
\* particle into p's slot.
RemovalKeepsOrder ==
    [][last'.op = "update" /\ Len(Traversed(last'.arg).removed) > 0 =>
          OrderKept(Traversed(last'.arg))]_vars

\* An update removed a particle whose successor the compaction moved into
\* its slot, and two particles that have aged are left.
RemovedAmongOthers ==
    /\ last.op = "update" /\ fault = "none"
    /\ \E i \in 1..Len(removed) : removed[i].moved
    /\ Cardinality({q \in Allocated : pMem[q].life < pMem[q].lifetime}) >= 2

\* ------------------------------------------------------------- C31
\* The particles of the pool after the step that the step spawned.
Newborn == {q \in 0..(pFree' - 1) : pMem'[q].id > spawned}

\* The emission of update(dt) ran on t, the system as the traversal left it:
\* it spawned what was due as far as the slots free after the removals
\* allowed, and aged none of the particles it spawned.
EmittedAfter(t, dt) ==
    /\ spawned' - spawned = DueAfter(t, dt)
    /\ activeParticles' = t.activeParticles + DueAfter(t, dt)
    /\ Cardinality(Newborn) = DueAfter(t, dt)
    /\ \A q \in Newborn : pMem'[q].life = pMem'[q].lifetime

\* C31: within one update, expiry precedes emission: slots freed by particles
\* expiring in a tick are available to that same tick's spawns, and a
\* particle spawned during update(dt) is not aged in that tick, so at the
\* end of the update its life equals its lifetime.
ExpiryPrecedesEmission ==
    [][last'.op = "update" /\ last'.arg > 0 /\ pMem # <<>> /\ fault' = "none" =>
          EmittedAfter(Traversed(last'.arg), last'.arg)]_vars

\* An update removed a particle and spawned one, and left the pool full: the
\* spawn took the slot the removal freed.
SpawnedIntoFreedSlot ==
    /\ last.op = "update" /\ fault = "none"
    /\ Len(removed) > 0 /\ Len(born) > 0
    /\ activeParticles = maxParticles

\* ------------------------------------------------------------- C32
\* The fraction a is less than the fraction b (positive denominators).
Less(a, b) == a[1] * b[2] < b[1] * a[2]

\* C32: every t that update passes to the initializer lies in [0, 1]; within
\* one tick the first spawn gets t = 0 (the previous emitter position) and t
\* strictly increases over the following spawns of that tick; the divisor used
\* to compute t is never zero when a spawn happens.
SpawnInterpolant ==
    last.op = "update" =>
        /\ \A i \in 1..Len(born) :
              /\ born[i].t[2] > 0
              /\ born[i].t[1] >= 0 /\ born[i].t[1] <= born[i].t[2]
        /\ Len(born) > 0 => born[1].t[1] = 0
        /\ \A i, j \in 1..Len(born) : i < j => Less(born[i].t, born[j].t)

\* One update spawned several particles.
SeveralSpawnsInOneTick ==
    /\ last.op = "update" /\ fault = "none"
    /\ Len(born) >= 2

\* ------------------------------------------------------------- C33
\* C33: update decrements the emitter's remaining life by dt only when the
\* configured emitter lifetime is finite: with infinite lifetime (-1) an
\* update while active leaves the remaining-life value unchanged, so pausing
\* an infinite-lifetime emitter after updates is reported by the same query
\* predicate as pausing it before any update.
InfiniteLifeNotCounted ==
    [][last'.op = "update" /\ lifetime = -1 /\ active =>
          /\ life' = life
          /\ isPaused(pause(Self(<<>>)')) = isPaused(pause(This))
          /\ isStopped(pause(Self(<<>>)')) = isStopped(pause(This))]_vars

\* ------------------------------------------------------------- C34
\* C34: with emitter lifetime -1 (infinite), no sequence of update calls ever
\* makes an active emitter inactive: the active flag turns false only through
\* stop() or pause().
InfiniteEmitterStaysActive ==
    [][lifetime = -1 /\ active /\ ~active' => last'.op \in {"stop", "pause"}]_vars

\* Several updates have run on an active emitter of infinite lifetime, and
\* its remaining life is below zero.
InfiniteEmitterUpdated ==
    /\ last.op = "update" /\ last.arg > 0
    /\ lifetime = -1 /\ active
    /\ life <= -3

\* ------------------------------------------------------------- C35
\* The query predicates that are true of the system.
Reported ==
    {q \in {"active", "paused", "stopped"} :
        \/ q = "active" /\ isActive(This)
        \/ q = "paused" /\ isPaused(This)
        \/ q = "stopped" /\ isStopped(This)}

\* C35: in every reachable state exactly one of the three query predicates
\* isActive(), isPaused(), isStopped() is true.
ExactlyOneQuery == Cardinality(Reported) = 1

\* A paused emitter whose remaining life has run down, and a stopped one
\* whose life is exactly its lifetime, both after the emitter has run.
PausedMidLife ==
    /\ last.op = "pause" /\ spawned > 0
    /\ life < lifetime /\ life >= 0
    /\ Reported = {"paused"}

\* ------------------------------------------------------------- C36
\* floor(t * m) clamped to [0, k - 1], for the fraction t.
Clamped(t, m, k) ==
    IF t[1] * m <= 0 THEN 0 ELSE Min((t[1] * m) \div t[2], k - 1)

\* t = 1 - life/lifetime of the particle in slot q once it is dt older.
AgeRatio(q, dt) == ratio(pMem[q].life - dt, pMem[q].lifetime)

\* The particle in slot q has, in t, the system as the traversal of update
\* leaves it, the sprite index floor(age ratio * m) clamped to the list of
\* quads regions; the index is in the list, and is not below the one the
\* particle had when that one was computed for the same list.
IndexedBy(t, q, dt, m) ==
    \E r \in 0..(t.pFree - 1) :
        /\ t.pMem[r].id = pMem[q].id
        /\ t.pMem[r].quadIndex = Clamped(AgeRatio(q, dt), m, quads)
        /\ t.pMem[r].quadIndex \in 0..(quads - 1)
        /\ pMem[q].quadIndex = Clamped(AgeRatio(q, 0), m, quads)
              => t.pMem[r].quadIndex >= pMem[q].quadIndex

\* update(dt) indexes every surviving particle of the list by
\* floor(age ratio * m), clamped.
SpriteIndexScaledBy(t, dt, m) ==
    \A q \in Range(List) : pMem[q].life - dt > 0 => IndexedBy(t, q, dt, m)

\* C36 as stated: when a sprite-region list of k >= 1 regions is configured,
\* update sets each surviving particle's spriteIndex to floor(t * (k - 1))
\* clamped to [0, k-1], where t = 1 - life/lifetime; the index is therefore
\* always in [0, k-1] and never decreases over the particle's life.
SpriteIndexAsStated ==
    [][last'.op = "update" /\ last'.arg > 0 /\ quads >= 1
          /\ Ok(Traversed(last'.arg)) =>
          SpriteIndexScaledBy(Traversed(last'.arg), last'.arg, quads - 1)]_vars

\* C36 amended: when a sprite-region list of k >= 1 regions is configured,
\* update sets each surviving particle's spriteIndex to floor(t * k) clamped
\* to [0, k-1], where t = 1 - life/lifetime; the index is always in [0, k-1]
\* and never decreases over the particle's life.
SpriteIndex ==
    [][last'.op = "update" /\ last'.arg > 0 /\ quads >= 1
          /\ Ok(Traversed(last'.arg)) =>
          SpriteIndexScaledBy(Traversed(last'.arg), last'.arg, quads)]_vars

\* An update gave a particle the index floor(t * k), which floor(t * (k - 1))
\* is not.
SpriteIndexSet ==
    /\ last.op = "update" /\ fault = "none" /\ quads >= 2
    /\ \E q \in Range(List) :
          /\ pMem[q].life < pMem[q].lifetime
          /\ pMem[q].quadIndex = Clamped(AgeRatio(q, 0), quads, quads)
          /\ pMem[q].quadIndex # Clamped(AgeRatio(q, 0), quads - 1, quads)

\* ------------------------------------------------------------- C37
\* Every spawn of the step was placed at the emitter's position x.
PlacedAt(x) ==
    \A i \in 1..Len(born') : born'[i].pos = <<x * born'[i].t[2], born'[i].t[2]>>

\* The step keeps the positions as the setters and update are said to: only
\* setPosition, moveTo and update write them, and while the previous position
\* is the current one every spawn is placed there.
PositionsKept ==
    /\ last'.op = "setPosition" =>
          position' = last'.arg /\ prevPosition' = last'.arg
    /\ last'.op = "moveTo" =>
          position' = last'.arg /\ prevPosition' = prevPosition
    /\ prevPosition = position => PlacedAt(position)
    /\ last'.op \notin {"moveTo", "setPosition", "update"} =>
          position' = position /\ prevPosition' = prevPosition

\* C37 as stated: after every update with dt != 0 (active or not) the
\* previous emitter position equals the current one; setPosition sets both, so
\* the next spawns are placed at that position for every t; moveTo changes
\* only the current position, so only between a moveTo and the end of the
\* next update can a spawn position differ from the current position.
PreviousPositionAsStated ==
    /\ [](last.op = "update" /\ last.arg # 0 => prevPosition = position)
    /\ [][PositionsKept]_vars

\* C37 amended: after every update with dt != 0 of a system that holds a
\* particle buffer (active or not) the previous emitter position equals the
\* current one; setPosition sets both, so the next spawns are placed at that
\* position for every t; moveTo changes only the current position, so only
\* between a moveTo and the end of the next update that finds a buffer can a
\* spawn position differ from the current position.
PreviousPositionTracked ==
    /\ [](last.op = "update" /\ last.arg # 0 /\ pMem # <<>> =>
            prevPosition = position)
    /\ [][PositionsKept]_vars

\* An update on a moved emitter placed a particle away from the current
\* position and left the previous position equal to the current one.
SpawnedOnTheWay ==
    /\ last.op = "update" /\ fault = "none"
    /\ prevPosition = position
    /\ \E i \in 1..Len(born) :
          born[i].pos # <<position * born[i].t[2], born[i].t[2]>>

\* ------------------------------------------------------------- C38
\* update(dt) on the active emitter with rate r > 0 made at most
\* floor(dt * r) + 1 spawn attempts.
BurstBounded ==
    last'.op = "update" /\ pMem # <<>> /\ active /\ emissionRate > 0 =>
        attempts' <= (last'.arg * emissionRate) \div TicksPerSecond + 1

\* Between operations emitCounter is at most the emission interval 1/r.
CounterWithinInterval ==
    fault = "none" /\ emissionRate > 0 => emitCounter <= rate(This)

\* C38: after any history of operations (including rate changes through
\* setEmissionRate and ticks spent active with rate 0), a single update(dt)
\* with the emitter active and rate r > 0 makes at most floor(dt * r) + 1
\* spawn attempts; equivalently emitCounter never exceeds the current emission
\* interval 1/r between operations.
BoundedBurst == []CounterWithinInterval /\ [][BurstBounded]_vars

\* ------------------------------------------------------------- C39
\* The particle in slot q of the list is, in t, the system as the traversal
\* of update(dt) leaves it, gone when its lifetime is 0, and when it stays
\* its lifetime is positive and its age ratio is in [0, 1).
RatioDefined(t, q, dt) ==
    /\ pMem[q].lifetime = 0 => \A r \in 0..(t.pFree - 1) : t.pMem[r].id # pMem[q].id
    /\ pMem[q].life - dt > 0 =>
          /\ pMem[q].lifetime > 0
          /\ AgeRatio(q, dt)[1] >= 0
          /\ AgeRatio(q, dt)[1] < AgeRatio(q, dt)[2]

\* C39: the age ratio t = 1 - life/lifetime is never computed with
\* lifetime == 0: for updates with dt > 0, any particle that survives the life
\* decrement has lifetime > 0, so a particle spawned with lifetime 0 is
\* removed by the first following update before the ratio is evaluated, and
\* the computed t lies in [0, 1).
AgeRatioDefined ==
    /\ [](fault # "undefined")
    /\ [][last'.op = "update" /\ last'.arg > 0 /\ pMem # <<>> =>
            \A q \in Range(List) : RatioDefined(Traversed(last'.arg), q, last'.arg)]_vars

\* An update removed a particle spawned with lifetime 0 and kept another,
\* whose ratio it computed.
ZeroLifetimeRemoved ==
    /\ last.op = "update" /\ last.arg > 0 /\ fault = "none"
    /\ \E i \in 1..Len(removed) : removed[i].lifetime = 0
    /\ \E q \in Range(List) : pMem[q].life > 0 /\ pMem[q].life < pMem[q].lifetime

\* ------------------------------------------------------------- C40
\* C40: whenever a sprite-region list is configured, every active particle's
\* spriteIndex is a valid index into the current list in every reachable
\* state, including right after setQuads replaces the list with a shorter one
\* and before the next update, so draw never reads a region outside the list.
SpriteIndexValid ==
    /\ fault # "wild"
    /\ fault = "none" /\ quads > 0 =>
          \A q \in Range(List) : pMem[q].quadIndex \in 0..(quads - 1)

====
